---- MODULE Spec2Model ----
(***************************************************************************)
(* Model of WebCloner (src/webCloner.py): one run of clone() against one   *)
(* page, into an output directory that starts empty.  The page (its DOM    *)
(* references) is the environment, fixed in Init; the outcome of every     *)
(* awaited browser, network or file call is drawn in the action that       *)
(* makes the call.                                                         *)
(***************************************************************************)
EXTENDS Integers, Sequences, FiniteSets, TLC

\* Bound: the number of asset references the rendered page holds in total.
MaxRefs == 2

\* Bounds of the page scroll_page_fully runs on: the greatest document
\* height and the greatest viewport height, in the same unit.
MaxHeight == 4
MaxViewport == 2

\* Bound: how many times extract_assets_from_page is called on one WebCloner
\* (DiscoverySpec).
MaxExtractCalls == 2

\* ------------------------------------------------------------------ URLs
\* A URL is modelled by the parts the code looks at: whether it is absolute
\* (host # ""), the path, and the path's suffix (Path(...).suffix).
PageHost == "x"

UrlA == [host |-> "x", path |-> "a", ext |-> ".svg"]
UrlB == [host |-> "x", path |-> "b", ext |-> ""]
\* The relative form of UrlA, as a stylesheet's @font-face rule may give it.
RelA == [host |-> "", path |-> "a", ext |-> ".svg"]

\* self.assets keys in dict order.
Categories == <<"css", "js", "images", "fonts", "svgs">>
CategorySet == {Categories[i] : i \in DOMAIN Categories}

\* download_assets drains the categories in this order.
DownloadOrder == <<"css", "js", "images", "svgs", "fonts">>

\* What the page.evaluate of each category may return: link.href, script.src,
\* img.src and object.data are absolute; the url(...) of an @font-face rule
\* may be relative.  Every category can repeat a URL, images and fonts (the
\* categories whose file extension comes from the URL) can hold two
\* different URLs, and UrlA can be in all five.
DomUrls(cat) ==
    CASE cat = "css" -> {UrlA}
      [] cat = "js" -> {UrlA}
      [] cat = "images" -> {UrlA, UrlB}
      [] cat = "svgs" -> {UrlA}
      [] cat = "fonts" -> {UrlA, UrlB, RelA}

\* urljoin(self.url, font_url) for the fonts the page reports.
ResolveFont(u) ==
    IF u.host # "" THEN u ELSE [u EXCEPT !.host = PageHost]

\* ------------------------------------------------------------- sequences
Range(s) == {s[i] : i \in DOMAIN s}

Perms(S) ==
    {p \in [1..Cardinality(S) -> S] : \A i, j \in 1..Cardinality(S) : p[i] = p[j] => i = j}

NoRepeats(s) == \A i, j \in DOMAIN s : s[i] = s[j] => i = j

RECURSIVE Project(_, _)
\* The sub-sequence of the references of one category, in document order.
Project(refs, cat) ==
    IF refs = <<>> THEN <<>>
    ELSE IF Head(refs)[1] = cat
         THEN <<Head(refs)[2]>> \o Project(Tail(refs), cat)
         ELSE Project(Tail(refs), cat)

Refs == UNION {{<<c, u>> : u \in DomUrls(c)} : c \in CategorySet}
RefSeqs == UNION {[1..n -> Refs] : n \in 0..MaxRefs}

\* The loop of lines 121-125 over all_fonts.
ResolveFonts(urls) == [i \in DOMAIN urls |-> ResolveFont(urls[i])]

\* ------------------------------------------------------------- variables
VARIABLES
    pc,         \* position of clone()
    dom,        \* the rendered page: category -> list of URLs its queries return
    assets,     \* self.assets: category -> list of URLs
    raw,        \* self.assets as it stood just before the de-duplication ran
    sel,        \* index of the cookie selector being tried (0 outside the loop)
    clicked,    \* a cookie selector was clicked
    dcat,       \* download_assets: index into DownloadOrder (0 outside)
    di,         \* download_assets: enumerate index i of the current category
    attempts,   \* the download_file calls made so far, each with its result
    files,      \* the files of the output directory
    manifest,   \* the content written to metadata.json, or NoManifest
    playwright, \* the async_playwright() context: "none", "running", "stopped"
    browser,    \* "none", "open", "closed"
    events,     \* the steps of clone() completed so far, in order
    raised,     \* the step whose exception reached clone()'s handler or left
                \* clone() (the latest, when both happened), or "none"
    errorLog,   \* the steps reported by the handler's print / traceback
    inflight,   \* the download_file calls started and not yet returned
    firstAssets,    \* self.assets as the previous extract_assets_from_page left it
    \* scroll_page_fully, step by step (ScrollSpec):
    spc,                \* position of scroll_page_fully ("idle" outside it)
    docHeight,          \* the page: document.body.scrollHeight at this moment
    total_height,       \* the local total_height
    viewport_height,    \* the local viewport_height (= scroll_step)
    current_position,   \* the local current_position
    scrollY,            \* the page: where the window is scrolled to
    scrolledTo,         \* the positions the loop has passed to window.scrollTo
    initial_height      \* total_height as first measured (line 191)

mainVars == <<pc, dom, assets, raw, sel, clicked, dcat, di, attempts, files,
              manifest, playwright, browser, events, raised, errorLog>>

scrollVars == <<spc, docHeight, total_height, viewport_height, current_position,
                scrollY, scrolledTo, initial_height>>

\* What the steps of clone() other than the download loop leave alone.
auxVars == <<inflight, firstAssets, scrollVars>>

vars == <<mainVars, inflight, firstAssets, scrollVars>>

NoManifest == [written |-> FALSE]

EmptyAssets == [c \in CategorySet |-> <<>>]

\* scroll_page_fully is not running: its locals do not exist.
ScrollIdle ==
    /\ spc = "idle"
    /\ docHeight = 0
    /\ total_height = 0
    /\ viewport_height = 0
    /\ current_position = 0
    /\ scrollY = 0
    /\ scrolledTo = {}
    /\ initial_height = 0

Init ==
    /\ pc = "setup"
    /\ \E refs \in RefSeqs : dom = [c \in CategorySet |-> Project(refs, c)]
    /\ assets = EmptyAssets
    /\ raw = EmptyAssets
    /\ sel = 0
    /\ clicked = FALSE
    /\ dcat = 0
    /\ di = 0
    /\ attempts = <<>>
    /\ files = {}
    /\ manifest = NoManifest
    /\ playwright = "none"
    /\ browser = "none"
    /\ events = <<>>
    /\ raised = "none"
    /\ errorLog = <<>>
    /\ inflight = {}
    /\ firstAssets = EmptyAssets
    /\ ScrollIdle

\* ------------------------------------------------------- control helpers
\* The step `name` returned: clone() goes on to `next`.
Step(name, next) ==
    /\ pc' = next
    /\ events' = Append(events, name)
    /\ raised' = raised

\* The step `name` raised inside clone()'s try block (lines 285-355): control
\* moves to `except Exception` and the rest of the block is skipped.
Raise(name) ==
    /\ pc' = "except"
    /\ events' = events
    /\ raised' = name

\* --------------------------------------------------------- clone(): start
SetupDirectories ==
    /\ pc = "setup"
    /\ \/ Step("setup_directories", "playwright")
       \/ pc' = "raised" /\ raised' = "setup_directories" /\ events' = events
    /\ UNCHANGED <<dom, assets, raw, sel, clicked, dcat, di, attempts, files,
                   manifest, playwright, browser, errorLog>>
    /\ UNCHANGED auxVars

StartPlaywright ==
    /\ pc = "playwright"
    /\ \/ Step("async_playwright", "launch") /\ playwright' = "running"
       \/ /\ pc' = "raised" /\ raised' = "async_playwright" /\ events' = events
          /\ playwright' = playwright
    /\ UNCHANGED <<dom, assets, raw, sel, clicked, dcat, di, attempts, files,
                   manifest, browser, errorLog>>
    /\ UNCHANGED auxVars

LaunchBrowser ==
    /\ pc = "launch"
    /\ \/ Step("launch", "new_context") /\ browser' = "open"
       \/ Raise("launch") /\ browser' = browser
    /\ UNCHANGED <<dom, assets, raw, sel, clicked, dcat, di, attempts, files,
                   manifest, playwright, errorLog>>
    /\ UNCHANGED auxVars

NewContext ==
    /\ pc = "new_context"
    /\ \/ Step("new_context", "new_page")
       \/ Raise("new_context")
    /\ UNCHANGED <<dom, assets, raw, sel, clicked, dcat, di, attempts, files,
                   manifest, playwright, browser, errorLog>>
    /\ UNCHANGED auxVars

NewPage ==
    /\ pc = "new_page"
    /\ \/ Step("new_page", "goto")
       \/ Raise("new_page")
    /\ UNCHANGED <<dom, assets, raw, sel, clicked, dcat, di, attempts, files,
                   manifest, playwright, browser, errorLog>>
    /\ UNCHANGED auxVars

\* ----------------------------------------------------------- navigation
\* A bug clone() could have: the failure of page.goto is swallowed and the
\* run goes on to the next step.
GotoFailureIgnored ==
    /\ pc = "goto"
    /\ \/ Step("goto", "wait_domcontentloaded")
       \/ /\ pc' = "wait_domcontentloaded"
          /\ events' = events
          /\ raised' = "goto"
    /\ UNCHANGED <<dom, assets, raw, sel, clicked, dcat, di, attempts, files,
                   manifest, playwright, browser, errorLog>>
    /\ UNCHANGED auxVars

\* page.goto(self.url, wait_until='networkidle', timeout=60000)
Goto ==
    /\ pc = "goto"
    /\ \/ Step("goto", "wait_domcontentloaded")
       \/ Raise("goto")
    /\ UNCHANGED <<dom, assets, raw, sel, clicked, dcat, di, attempts, files,
                   manifest, playwright, browser, errorLog>>
    /\ UNCHANGED auxVars

WaitDomContentLoaded ==
    /\ pc = "wait_domcontentloaded"
    /\ \/ Step("wait_domcontentloaded", "wait_load")
       \/ Raise("wait_domcontentloaded")
    /\ UNCHANGED <<dom, assets, raw, sel, clicked, dcat, di, attempts, files,
                   manifest, playwright, browser, errorLog>>
    /\ UNCHANGED auxVars

\* wait_for_load_state('load'), then the 3 s settle delay; the cookie loop
\* starts at its first selector.
WaitLoad ==
    /\ pc = "wait_load"
    /\ \/ Step("wait_load", "cookies") /\ sel' = 1
       \/ Raise("wait_load") /\ sel' = sel
    /\ UNCHANGED <<dom, assets, raw, clicked, dcat, di, attempts, files,
                   manifest, playwright, browser, errorLog>>
    /\ UNCHANGED auxVars

NavigationSteps == {"goto", "wait_domcontentloaded", "wait_load"}

\* ------------------------------------------------------ cookie dismissal
NumSelectors == 6

\* A bug the cookie loop could have: no break after a successful click, so
\* the remaining selectors are tried (and may be clicked) as well.
ClickSelectorNoBreak ==
    /\ pc = "cookies"
    /\ \E ok \in BOOLEAN :
         /\ clicked' = (clicked \/ ok)
         /\ IF sel < NumSelectors
            THEN /\ sel' = sel + 1
                 /\ UNCHANGED <<pc, events, raised>>
            ELSE /\ sel' = 0
                 /\ Step("dismiss_overlays", "eval_css")
    /\ UNCHANGED <<dom, assets, raw, dcat, di, attempts, files,
                   manifest, playwright, browser, errorLog>>
    /\ UNCHANGED auxVars

\* One pass of the loop over cookie_selectors: page.click either succeeds
\* (break) or raises, which the inner bare except turns into `continue`.
ClickSelector ==
    /\ pc = "cookies"
    /\ \E ok \in BOOLEAN :
         IF ok
         THEN /\ clicked' = TRUE
              /\ sel' = 0
              /\ Step("dismiss_overlays", "eval_css")
         ELSE /\ clicked' = clicked
              /\ IF sel < NumSelectors
                 THEN /\ sel' = sel + 1
                      /\ UNCHANGED <<pc, events, raised>>
                 ELSE /\ sel' = 0
                      /\ Step("dismiss_overlays", "eval_css")
    /\ UNCHANGED <<dom, assets, raw, dcat, di, attempts, files,
                   manifest, playwright, browser, errorLog>>
    /\ UNCHANGED auxVars

\* ------------------------------------------------- extract_assets_from_page
\* self.assets[cat].extend(<result of the page.evaluate for cat>)
Extend(a, cat, urls) == [a EXCEPT ![cat] = @ \o urls]

\* One page.evaluate of extract_assets_from_page followed by the extend of
\* its category; an exception of the evaluation is not caught in
\* extract_assets_from_page and reaches clone()'s handler.
Evaluate(at, cat, next) ==
    /\ pc = at
    /\ \/ Step(at, next) /\ assets' = Extend(assets, cat, dom[cat])
       \/ Raise(at) /\ assets' = assets
    /\ UNCHANGED <<dom, raw, sel, clicked, dcat, di, attempts, files,
                   manifest, playwright, browser, errorLog>>
    /\ UNCHANGED auxVars

EvalCss == Evaluate("eval_css", "css", "eval_js")

EvalJs == Evaluate("eval_js", "js", "eval_images")

EvalImages == Evaluate("eval_images", "images", "eval_svgs")

EvalSvgs == Evaluate("eval_svgs", "svgs", "eval_fonts")

\* A bug the de-duplication could have: the list is kept as collected.
DedupeKeepsAll(urls) == {urls}

\* A bug the de-duplication could have: only a URL that repeats the one
\* directly before it is dropped, so a list extended by a second discovery
\* keeps both copies.
DedupeAdjacent(urls) ==
    LET keep == {i \in DOMAIN urls : i = 1 \/ urls[i] # urls[i - 1]}
        idx(k) == CHOOSE i \in keep : Cardinality({j \in keep : j < i}) = k - 1
    IN  {[k \in 1..Cardinality(keep) |-> urls[idx(k)]]}

\* list(set(urls)): the distinct URLs, in whatever order the set iterates.
Dedupe(urls) == Perms(Range(urls))

\* The index into DownloadOrder of the first category from c on that holds
\* an entry, or 0: the for loops of download_assets over empty lists do
\* nothing.
RECURSIVE FirstCategory(_, _)
FirstCategory(a, c) ==
    IF c > Len(DownloadOrder) THEN 0
    ELSE IF Len(a[DownloadOrder[c]]) > 0 THEN c
    ELSE FirstCategory(a, c + 1)

\* Where clone() stands once the entries before (c, 0) are done: at the
\* first entry of the next non-empty category, or past download_assets.
EnterCategory(a, c, ev) ==
    IF FirstCategory(a, c) = 0
    THEN /\ pc' = "save_html" /\ dcat' = 0 /\ di' = 0
         /\ events' = Append(ev, "download_assets")
    ELSE /\ pc' = "download" /\ dcat' = FirstCategory(a, c) /\ di' = 0
         /\ events' = ev

\* The font evaluation, the resolution of the font URLs (lines 121-125) and
\* the de-duplication of every category (lines 128-129); download_assets
\* then starts at its first entry.
EvalFontsAndDedupe ==
    /\ pc = "eval_fonts"
    /\ \/ LET acc == Extend(assets, "fonts", ResolveFonts(dom["fonts"]))
          IN  /\ raw' = acc
              /\ \E css \in Dedupe(acc["css"]), js \in Dedupe(acc["js"]),
                    images \in Dedupe(acc["images"]), fonts \in Dedupe(acc["fonts"]),
                    svgs \in Dedupe(acc["svgs"]) :
                    /\ assets' = [css |-> css, js |-> js, images |-> images,
                                  fonts |-> fonts, svgs |-> svgs]
                    /\ EnterCategory(assets', 1,
                                     Append(events, "extract_assets_from_page"))
              /\ raised' = raised
       \/ /\ Raise("eval_fonts")
          /\ UNCHANGED <<assets, raw, dcat, di>>
    /\ UNCHANGED <<dom, sel, clicked, attempts, files,
                   manifest, playwright, browser, errorLog>>
    /\ UNCHANGED auxVars

\* ------------------------------------------------------------ download_file
\* What the request and the write of one download_file call can do.
\*   ok200         status 200, body read, file written
\*   status404     any status other than 200
\*   request_error session.get, response.read or open(filepath, 'wb') raises
\*                 (timeout, connection error, unwritable path): the except
\*                 branch runs before any file exists
\*   write_error   status 200, open() created the file, f.write raises
Outcomes == {"ok200", "status404", "request_error", "write_error"}

\* A bug download_file could have: no try/except, so an exception of the
\* request or of the write propagates to the caller.
DownloadFileUncaught(url, filepath, outcome) ==
    CASE outcome = "ok200" ->
            [ret |-> "True", logged |-> <<>>, creates |-> TRUE, raises |-> FALSE]
      [] outcome = "status404" ->
            [ret |-> "None", logged |-> <<>>, creates |-> FALSE, raises |-> FALSE]
      [] outcome = "write_error" ->
            [ret |-> "None", logged |-> <<>>, creates |-> TRUE, raises |-> TRUE]
      [] OTHER ->
            [ret |-> "None", logged |-> <<>>, creates |-> FALSE, raises |-> TRUE]

\* download_file(url, filepath): the value it returns, the URL its except
\* branch prints (<<>> when nothing is printed), whether a file exists at
\* filepath afterwards because of it, and whether it raises.
\*   status 200, file written            -> return True
\*   any other status                    -> falls off the end: returns None
\*   exception before open() (request, read, open)  -> printed, return False
\*   exception in f.write after open(filepath,'wb') created the file
\*                                       -> printed, return False
DownloadFile(url, filepath, outcome) ==
    CASE outcome = "ok200" ->
            [ret |-> "True", logged |-> <<>>, creates |-> TRUE, raises |-> FALSE]
      [] outcome = "status404" ->
            [ret |-> "None", logged |-> <<>>, creates |-> FALSE, raises |-> FALSE]
      [] outcome = "write_error" ->
            [ret |-> "False", logged |-> <<url>>, creates |-> TRUE, raises |-> FALSE]
      [] OTHER ->
            [ret |-> "False", logged |-> <<url>>, creates |-> FALSE, raises |-> FALSE]

\* ---------------------------------------------------------- download_assets
Prefix(cat) ==
    CASE cat = "css" -> "style_"
      [] cat = "js" -> "script_"
      [] cat = "images" -> "image_"
      [] cat = "svgs" -> "svg_"
      [] cat = "fonts" -> "font_"

\* Path(urlparse(url).path).suffix or <default>, fixed for css, js and svgs.
Extension(cat, url) ==
    CASE cat = "css" -> ".css"
      [] cat = "js" -> ".js"
      [] cat = "svgs" -> ".svg"
      [] cat = "images" -> IF url.ext # "" THEN url.ext ELSE ".jpg"
      [] cat = "fonts" -> IF url.ext # "" THEN url.ext ELSE ".woff2"

\* f"{self.output_dir}/{cat}/{prefix}{i}{ext}"
FilePath(cat, i, url) ==
    [dir |-> cat, name |-> Prefix(cat), idx |-> i, ext |-> Extension(cat, url)]

\* A bug download_assets could have: download_file is started as a task and
\* not awaited, so the loop goes on to the next entry of the category while
\* the request is still running.
DownloadStartNotAwaited ==
    /\ pc = "download"
    /\ inflight' = inflight \cup {<<DownloadOrder[dcat], di>>}
    /\ IF di + 1 < Len(assets[DownloadOrder[dcat]])
       THEN pc' = "download" /\ di' = di + 1
       ELSE pc' = "downloading" /\ di' = di
    /\ UNCHANGED <<dom, assets, raw, sel, clicked, dcat, attempts, files,
                   manifest, playwright, browser, events, raised, errorLog>>
    /\ UNCHANGED <<firstAssets, scrollVars>>

\* One iteration of one of the five for loops, first half: download_file is
\* called for entry di of category DownloadOrder[dcat] and the loop waits
\* for it (`if await self.download_file(...)`).
DownloadStart ==
    /\ pc = "download"
    /\ inflight' = inflight \cup {<<DownloadOrder[dcat], di>>}
    /\ pc' = "downloading"
    /\ UNCHANGED <<dom, assets, raw, sel, clicked, dcat, di, attempts, files,
                   manifest, playwright, browser, events, raised, errorLog>>
    /\ UNCHANGED <<firstAssets, scrollVars>>

\* A bug download_assets could have: an entry whose download failed is
\* requested a second time.
DownloadStepRetries ==
    /\ pc = "downloading"
    /\ LET cat == DownloadOrder[dcat]
           url == assets[cat][di + 1]
           filepath == FilePath(cat, di, url)
       IN  \E outcome \in Outcomes :
             LET r == DownloadFile(url, filepath, outcome)
                 first == \A k \in DOMAIN attempts :
                             ~(attempts[k].cat = cat /\ attempts[k].idx = di)
             IN  /\ attempts' = Append(attempts,
                        [cat |-> cat, idx |-> di, url |-> url, path |-> filepath,
                         outcome |-> outcome, ret |-> r.ret, logged |-> r.logged])
                 /\ files' = IF r.creates THEN files \cup {filepath} ELSE files
                 /\ inflight' = inflight \ {<<cat, di>>}
                 /\ raised' = raised
                 /\ IF r.ret # "True" /\ first
                    THEN /\ pc' = "download" /\ dcat' = dcat /\ di' = di
                         /\ events' = events
                    ELSE IF di + 1 < Len(assets[cat])
                    THEN /\ pc' = "download" /\ dcat' = dcat /\ di' = di + 1
                         /\ events' = events
                    ELSE EnterCategory(assets, dcat + 1, events)
    /\ UNCHANGED <<dom, assets, raw, sel, clicked,
                   manifest, playwright, browser, errorLog>>
    /\ UNCHANGED <<firstAssets, scrollVars>>

\* Second half: the download_file call for entry di of category
\* DownloadOrder[dcat] returns, and the loop goes on to the next entry.
DownloadStep ==
    /\ pc = "downloading"
    /\ LET cat == DownloadOrder[dcat]
           url == assets[cat][di + 1]
           filepath == FilePath(cat, di, url)
       IN  \E outcome \in Outcomes :
             LET r == DownloadFile(url, filepath, outcome)
             IN  /\ attempts' = Append(attempts,
                        [cat |-> cat, idx |-> di, url |-> url, path |-> filepath,
                         outcome |-> outcome, ret |-> r.ret, logged |-> r.logged])
                 /\ files' = IF r.creates THEN files \cup {filepath} ELSE files
                 /\ inflight' = inflight \ {<<cat, di>>}
                 /\ IF r.raises
                    THEN Raise("download_assets") /\ UNCHANGED <<dcat, di>>
                    ELSE /\ raised' = raised
                         /\ IF di + 1 < Len(assets[cat])
                            THEN /\ pc' = "download" /\ dcat' = dcat /\ di' = di + 1
                                 /\ events' = events
                            ELSE EnterCategory(assets, dcat + 1, events)
    /\ UNCHANGED <<dom, assets, raw, sel, clicked,
                   manifest, playwright, browser, errorLog>>
    /\ UNCHANGED <<firstAssets, scrollVars>>

\* ------------------------------------------------------------------ save_html
IndexHtml == [dir |-> "", name |-> "index", idx |-> 0, ext |-> ".html"]

\* A bug clone() could have: the manifest is written right after the HTML
\* snapshot, before the screenshots.
SaveHtmlThenManifest ==
    /\ pc = "save_html"
    /\ \/ Step("save_html", "save_metadata") /\ files' = files \cup {IndexHtml}
       \/ Raise("save_html") /\ files' = files
    /\ UNCHANGED <<dom, assets, raw, sel, clicked, dcat, di, attempts,
                   manifest, playwright, browser, errorLog>>
    /\ UNCHANGED auxVars

\* page.content() raises; or open() creates index.html and the write
\* raises; or the file is written.
SaveHtml ==
    /\ pc = "save_html"
    /\ \/ Step("save_html", "scroll") /\ files' = files \cup {IndexHtml}
       \/ Raise("save_html") /\ files' = files
       \/ Raise("save_html") /\ files' = files \cup {IndexHtml}
    /\ UNCHANGED <<dom, assets, raw, sel, clicked, dcat, di, attempts,
                   manifest, playwright, browser, errorLog>>
    /\ UNCHANGED auxVars

\* ----------------------------------------------------------- take_screenshots
\* A bug take_screenshots could have: the screenshots follow the scroll
\* directly, without the wait for images and fonts.
ScrollPageFullySkipsWait ==
    /\ pc = "scroll"
    /\ \/ Step("scroll_page_fully", "shot_full")
       \/ Raise("scroll_page_fully")
    /\ UNCHANGED <<dom, assets, raw, sel, clicked, dcat, di, attempts, files,
                   manifest, playwright, browser, errorLog>>
    /\ UNCHANGED auxVars

\* scroll_page_fully, as called first by take_screenshots.
ScrollPageFully ==
    /\ pc = "scroll"
    /\ \/ Step("scroll_page_fully", "wait_media")
       \/ Raise("scroll_page_fully")
    /\ UNCHANGED <<dom, assets, raw, sel, clicked, dcat, di, attempts, files,
                   manifest, playwright, browser, errorLog>>
    /\ UNCHANGED auxVars

WaitForImagesAndFonts ==
    /\ pc = "wait_media"
    /\ \/ Step("wait_for_images_and_fonts", "shot_full")
       \/ Raise("wait_for_images_and_fonts")
    /\ UNCHANGED <<dom, assets, raw, sel, clicked, dcat, di, attempts, files,
                   manifest, playwright, browser, errorLog>>
    /\ UNCHANGED auxVars

FullPagePng == [dir |-> "screenshots", name |-> "fullpage", idx |-> 0, ext |-> ".png"]
ViewportPng == [dir |-> "screenshots", name |-> "viewport", idx |-> 0, ext |-> ".png"]

ScreenshotFullPage ==
    /\ pc = "shot_full"
    /\ \/ Step("screenshot_fullpage", "shot_viewport") /\ files' = files \cup {FullPagePng}
       \/ Raise("screenshot_fullpage") /\ files' = files
    /\ UNCHANGED <<dom, assets, raw, sel, clicked, dcat, di, attempts,
                   manifest, playwright, browser, errorLog>>
    /\ UNCHANGED auxVars

ScreenshotViewport ==
    /\ pc = "shot_viewport"
    /\ \/ Step("screenshot_viewport", "save_metadata") /\ files' = files \cup {ViewportPng}
       \/ Raise("screenshot_viewport") /\ files' = files
    /\ UNCHANGED <<dom, assets, raw, sel, clicked, dcat, di, attempts,
                   manifest, playwright, browser, errorLog>>
    /\ UNCHANGED auxVars

\* -------------------------------------------------------------- save_metadata
MetadataJson == [dir |-> "", name |-> "metadata", idx |-> 0, ext |-> ".json"]

\* A bug the manifest could have: one count taken from another category.
MetadataWrongCount(a) ==
    [written |-> TRUE,
     counts |-> [c \in CategorySet |-> IF c = "fonts" THEN Len(a["svgs"]) ELSE Len(a[c])],
     asset_urls |-> a]

\* The metadata dict of save_metadata: {c}_count = len(self.assets[c]) and
\* asset_urls = self.assets.
Metadata(a) ==
    [written |-> TRUE,
     counts |-> [c \in CategorySet |-> Len(a[c])],
     asset_urls |-> a]

\* A bug save_metadata could have: the registry is discarded (cleared) once
\* the manifest is written.
SaveMetadataDiscardsRegistry ==
    /\ pc = "save_metadata"
    /\ \/ /\ Step("save_metadata", "close")
          /\ files' = files \cup {MetadataJson}
          /\ manifest' = Metadata(assets)
          /\ assets' = EmptyAssets
       \/ Raise("save_metadata") /\ files' = files /\ manifest' = manifest
                                 /\ assets' = assets
    /\ UNCHANGED <<dom, raw, sel, clicked, dcat, di, attempts,
                   playwright, browser, errorLog>>
    /\ UNCHANGED auxVars

\* open() raises; or open() creates metadata.json and json.dump raises; or
\* the manifest is written.
SaveMetadata ==
    /\ pc = "save_metadata"
    /\ \/ /\ Step("save_metadata", "close")
          /\ files' = files \cup {MetadataJson}
          /\ manifest' = Metadata(assets)
       \/ Raise("save_metadata") /\ files' = files /\ manifest' = manifest
       \/ Raise("save_metadata") /\ files' = files \cup {MetadataJson}
                                 /\ manifest' = manifest
    /\ UNCHANGED <<dom, assets, raw, sel, clicked, dcat, di, attempts,
                   playwright, browser, errorLog>>
    /\ UNCHANGED auxVars

\* ------------------------------------------------------------- clone(): end
\* await browser.close(), the last statement of the try block.
CloseBrowser ==
    /\ pc = "close"
    /\ \/ Step("browser_close", "exit_playwright") /\ browser' = "closed"
       \/ Raise("browser_close") /\ browser' = browser
    /\ UNCHANGED <<dom, assets, raw, sel, clicked, dcat, di, attempts, files,
                   manifest, playwright, errorLog>>
    /\ UNCHANGED auxVars

\* A bug the handler could have: it reports the exception and raises it
\* again, so the exception leaves clone().
ExceptHandlerReraises ==
    /\ pc = "except"
    /\ errorLog' = Append(errorLog, raised)
    /\ pc' = "raised"
    /\ UNCHANGED <<dom, assets, raw, sel, clicked, dcat, di, attempts, files,
                   manifest, playwright, browser, events, raised>>
    /\ UNCHANGED auxVars

\* except Exception as e: print, traceback.print_exc().  Nothing else: the
\* handler does not close the browser.
ExceptHandler ==
    /\ pc = "except"
    /\ errorLog' = Append(errorLog, raised)
    /\ pc' = "exit_playwright"
    /\ UNCHANGED <<dom, assets, raw, sel, clicked, dcat, di, attempts, files,
                   manifest, playwright, browser, events, raised>>
    /\ UNCHANGED auxVars

\* The end of `async with async_playwright()` (line 284, outside the try
\* block): the context manager stops Playwright and clone() returns, or
\* the exit itself raises and the exception leaves clone().
ExitPlaywright ==
    /\ pc = "exit_playwright"
    /\ playwright' = "stopped"
    /\ \/ pc' = "returned" /\ raised' = raised
       \/ pc' = "raised" /\ raised' = "exit_playwright"
    /\ UNCHANGED <<dom, assets, raw, sel, clicked, dcat, di, attempts, files,
                   manifest, browser, events, errorLog>>
    /\ UNCHANGED auxVars

Next ==
    \/ SetupDirectories
    \/ StartPlaywright
    \/ LaunchBrowser
    \/ NewContext
    \/ NewPage
    \/ Goto
    \/ WaitDomContentLoaded
    \/ WaitLoad
    \/ ClickSelector
    \/ EvalCss
    \/ EvalJs
    \/ EvalImages
    \/ EvalSvgs
    \/ EvalFontsAndDedupe
    \/ DownloadStart
    \/ DownloadStep
    \/ SaveHtml
    \/ ScrollPageFully
    \/ WaitForImagesAndFonts
    \/ ScreenshotFullPage
    \/ ScreenshotViewport
    \/ SaveMetadata
    \/ CloseBrowser
    \/ ExceptHandler
    \/ ExitPlaywright

Spec == Init /\ [][Next]_vars

\* ---------------------------------------------- scroll_page_fully, in steps
\* The function the step ScrollPageFully of clone() stands for, statement by
\* statement, on a page whose document grows while the loop sleeps.
Min(a, b) == IF a < b THEN a ELSE b

Ceil(a, b) == (a + b - 1) \div b

\* window.scrollTo(0, y): the browser clamps y to the scrollable range.
ScrollTarget(y, height, viewport) ==
    IF height - viewport < 0 THEN 0 ELSE Min(y, height - viewport)

\* while current_position < total_height
LoopContinues(position, total) == position < total

\* A bug the loop could have: the position is never advanced.
NextPositionStuck(position, step) == position

\* current_position += scroll_step
NextPosition(position, step) == position + step

\* A bug the loop could have: the height measured before the loop is kept.
RemeasureCached(total, height) == total

\* total_height = await page.evaluate("document.body.scrollHeight"), line 204
Remeasure(total, height) == height

\* take_screenshots has just called scroll_page_fully on a loaded page.
ScrollInit ==
    /\ pc = "scroll"
    /\ dom = EmptyAssets
    /\ assets = EmptyAssets
    /\ raw = EmptyAssets
    /\ sel = 0
    /\ clicked = FALSE
    /\ dcat = 0
    /\ di = 0
    /\ attempts = <<>>
    /\ files = {}
    /\ manifest = NoManifest
    /\ playwright = "running"
    /\ browser = "open"
    /\ events = <<>>
    /\ raised = "none"
    /\ errorLog = <<>>
    /\ inflight = {}
    /\ firstAssets = EmptyAssets
    /\ spc = "measure_total"
    /\ docHeight \in 0..MaxHeight
    /\ total_height = 0
    /\ viewport_height = 0
    /\ current_position = 0
    /\ scrollY = 0
    /\ scrolledTo = {}
    /\ initial_height = 0

\* A page.evaluate of scroll_page_fully raised: the function is left.
ScrollRaise ==
    /\ spc' = "raised"
    /\ UNCHANGED <<docHeight, total_height, viewport_height, current_position,
                   scrollY, scrolledTo, initial_height>>

\* line 191
MeasureTotal ==
    /\ spc = "measure_total"
    /\ \/ /\ spc' = "measure_viewport"
          /\ total_height' = docHeight
          /\ initial_height' = docHeight
          /\ UNCHANGED <<docHeight, viewport_height, current_position, scrollY,
                         scrolledTo>>
       \/ ScrollRaise
    /\ UNCHANGED <<mainVars, inflight, firstAssets>>

\* lines 192-196: window.innerHeight is positive (the context's viewport is
\* fixed at line 291).
MeasureViewport ==
    /\ spc = "measure_viewport"
    /\ \/ \E v \in 1..MaxViewport :
            /\ spc' = "test"
            /\ viewport_height' = v
            /\ current_position' = 0
            /\ UNCHANGED <<docHeight, total_height, scrollY, scrolledTo,
                           initial_height>>
       \/ ScrollRaise
    /\ UNCHANGED <<mainVars, inflight, firstAssets>>

\* line 198
LoopTest ==
    /\ spc = "test"
    /\ spc' = IF LoopContinues(current_position, total_height)
              THEN "scroll_to" ELSE "scroll_top"
    /\ UNCHANGED <<docHeight, total_height, viewport_height, current_position,
                   scrollY, scrolledTo, initial_height>>
    /\ UNCHANGED <<mainVars, inflight, firstAssets>>

\* lines 199-201: scrollTo, the 0.5 s sleep during which lazy content may
\* make the document taller, and the advance of current_position.
ScrollTo ==
    /\ spc = "scroll_to"
    /\ \/ /\ spc' = "reread"
          /\ scrollY' = ScrollTarget(current_position, docHeight, viewport_height)
          /\ scrolledTo' = scrolledTo \cup {current_position}
          /\ docHeight' \in docHeight..MaxHeight
          /\ current_position' = NextPosition(current_position, viewport_height)
          /\ UNCHANGED <<total_height, viewport_height, initial_height>>
       \/ ScrollRaise
    /\ UNCHANGED <<mainVars, inflight, firstAssets>>

\* line 204
Reread ==
    /\ spc = "reread"
    /\ \/ /\ spc' = "test"
          /\ total_height' = Remeasure(total_height, docHeight)
          /\ UNCHANGED <<docHeight, viewport_height, current_position, scrollY,
                         scrolledTo, initial_height>>
       \/ ScrollRaise
    /\ UNCHANGED <<mainVars, inflight, firstAssets>>

\* lines 207-209
ScrollTop ==
    /\ spc = "scroll_top"
    /\ \/ /\ spc' = "done"
          /\ scrollY' = ScrollTarget(0, docHeight, viewport_height)
          /\ UNCHANGED <<docHeight, total_height, viewport_height,
                         current_position, scrolledTo, initial_height>>
       \/ ScrollRaise
    /\ UNCHANGED <<mainVars, inflight, firstAssets>>

ScrollNext ==
    \/ MeasureTotal
    \/ MeasureViewport
    \/ LoopTest
    \/ ScrollTo
    \/ Reread
    \/ ScrollTop

ScrollSpec == ScrollInit /\ [][ScrollNext]_vars

\* The coroutine is resumed after each of its awaits completes, and every
\* await of scroll_page_fully completes or raises.
ScrollFairSpec == ScrollSpec /\ WF_vars(ScrollNext)

\* --------------------------------- extract_assets_from_page, called again
\* A WebCloner whose page is loaded, at its first call of
\* extract_assets_from_page; the DOM stays as it is from call to call.
DiscoveryInit ==
    /\ pc = "eval_css"
    /\ \E refs \in RefSeqs : dom = [c \in CategorySet |-> Project(refs, c)]
    /\ assets = EmptyAssets
    /\ raw = EmptyAssets
    /\ sel = 0
    /\ clicked = FALSE
    /\ dcat = 0
    /\ di = 0
    /\ attempts = <<>>
    /\ files = {}
    /\ manifest = NoManifest
    /\ playwright = "running"
    /\ browser = "open"
    /\ events = <<>>
    /\ raised = "none"
    /\ errorLog = <<>>
    /\ inflight = {}
    /\ firstAssets = EmptyAssets
    /\ ScrollIdle

\* The calls of extract_assets_from_page that have returned.
ExtractCalls ==
    Cardinality({i \in DOMAIN events : events[i] = "extract_assets_from_page"})

\* extract_assets_from_page has returned to its caller.
ExtractReturned == pc \in {"download", "save_html"}

\* The method is called once more on the same object: self.assets is not
\* reset (it is set only in __init__), and the evaluations start over.
ExtractAgain ==
    /\ ExtractReturned
    /\ ExtractCalls < MaxExtractCalls
    /\ pc' = "eval_css"
    /\ dcat' = 0
    /\ di' = 0
    /\ firstAssets' = assets
    /\ UNCHANGED <<dom, assets, raw, sel, clicked, attempts, files, manifest,
                   playwright, browser, events, raised, errorLog, inflight,
                   scrollVars>>

DiscoveryNext ==
    \/ EvalCss
    \/ EvalJs
    \/ EvalImages
    \/ EvalSvgs
    \/ EvalFontsAndDedupe
    \/ ExtractAgain

DiscoverySpec == DiscoveryInit /\ [][DiscoveryNext]_vars

\* ===================================================================== claims
Done(step) == \E i \in DOMAIN events : events[i] = step

Returned == pc = "returned"

EvalSteps == {"eval_css", "eval_js", "eval_images", "eval_svgs", "eval_fonts"}

\* The steps of clone() that follow navigation.
AfterNavigation ==
    {"dismiss_overlays", "eval_css", "eval_js", "eval_images", "eval_svgs",
     "extract_assets_from_page", "download_assets", "save_html",
     "scroll_page_fully", "wait_for_images_and_fonts", "screenshot_fullpage",
     "screenshot_viewport", "save_metadata"}

\* The download_file calls made for entry i (zero-based) of category c.
AttemptsOf(c, i) == {k \in DOMAIN attempts : attempts[k].cat = c /\ attempts[k].idx = i}

Succeeded(c, i) == \E k \in AttemptsOf(c, i) : attempts[k].ret = "True"

\* A download_file call for entry i (zero-based) of category c has returned.
Requested(c, i) ==
    \E k \in DOMAIN attempts : attempts[k].cat = c /\ attempts[k].idx = i

\* Every entry of the registry has had its download_file call.
AllRequested ==
    \A c \in CategorySet : \A i \in DOMAIN assets[c] : Requested(c, i - 1)

\* Two lists hold the same elements.
SameElements(s, t) ==
    /\ \A i \in DOMAIN s : \E j \in DOMAIN t : t[j] = s[i]
    /\ \A j \in DOMAIN t : \E i \in DOMAIN s : s[i] = t[j]

\* The entries of the registry: category and zero-based index.
Entries == UNION {{<<c, i - 1>> : i \in DOMAIN assets[c]} : c \in CategorySet}

\* C1: when clone() returns from a run that launched the browser,
\* browser.close() has been executed, whichever way the run ended.
C1_BrowserClosedOnEveryExit ==
    (Returned /\ Done("launch")) => browser = "closed"

\* C2: once a navigation step (page.goto or one of the two load-state
\* waits) has failed, the run is in its abort path and none of the later
\* steps has run or ever runs: no overlay click, no discovery, no download,
\* no index.html, no screenshot, and metadata.json is not written.
C2_NavigationFailureAborts ==
    raised \in NavigationSteps =>
        /\ pc \in {"except", "exit_playwright", "returned"}
        /\ \A step \in AfterNavigation : ~Done(step)
        /\ ~clicked
        /\ assets = EmptyAssets
        /\ attempts = <<>>
        /\ files = {}
        /\ manifest = NoManifest

\* C2 witness: a run that returned after its navigation failed.
C2_Witness == Returned /\ raised \in NavigationSteps /\ Done("launch")

\* C3: a failed download never aborts the run.  No exception of
\* download_assets reaches clone()'s handler; the download loops are left
\* only by finishing them, with every entry of the registry attempted; and a
\* run no other step of which raised returns with index.html, both
\* screenshots and a manifest that lists the whole registry.
C3_DownloadFailuresDoNotAbort ==
    /\ raised # "download_assets"
    /\ (attempts # <<>> /\ pc \notin {"download", "downloading"}) =>
          Done("download_assets")
    /\ Done("download_assets") => AllRequested
    /\ (Returned /\ raised = "none") =>
          /\ Done("download_assets")
          /\ {IndexHtml, FullPagePng, ViewportPng, MetadataJson} \subseteq files
          /\ manifest.written
          /\ manifest.asset_urls = assets

\* C3 witness: a finished run whose first download failed, whose second
\* download was still attempted, and whose manifest lists both.
C3_Witness ==
    /\ Returned /\ raised = "none"
    /\ Len(attempts) = 2
    /\ attempts[1].ret # "True"
    /\ manifest.written
    /\ \E c \in CategorySet : Len(manifest.asset_urls[c]) >= 1

\* C4: a written manifest carries, for each category, the number of
\* distinct URLs of that category of the registry, and asset_urls is the
\* registry, whatever the downloads did.
C4_ManifestCountsEqualRegistry ==
    manifest.written =>
        /\ manifest.asset_urls = assets
        /\ \A c \in CategorySet :
              /\ manifest.counts[c] = Len(assets[c])
              /\ manifest.counts[c] = Cardinality(Range(assets[c]))

\* C4 witness: a manifest that counts two fonts although no download
\* succeeded.
C4_Witness ==
    /\ manifest.written
    /\ manifest.counts["fonts"] = 2
    /\ \A k \in DOMAIN attempts : attempts[k].ret # "True"

\* C5: download_file never raises, reports success exactly when the status
\* was 200 and the file was written, and prints the URL of every call that
\* did not succeed.
C5_EveryFailureIsLogged ==
    /\ raised # "download_assets"
    /\ \A k \in DOMAIN attempts :
          /\ attempts[k].ret \in {"True", "False", "None"}
          /\ attempts[k].ret = "True" <=>
                (attempts[k].outcome = "ok200" /\ attempts[k].path \in files)
          /\ attempts[k].ret # "True" => attempts[k].logged = <<attempts[k].url>>

\* C6: discovery and the HTML snapshot begin only after the lazy-content
\* scroll and the media-ready wait have both completed.
C6_DiscoveryAfterStabilization ==
    (pc \in EvalSteps \cup {"download", "downloading", "save_html"}
        \/ Done("extract_assets_from_page")) =>
        (Done("scroll_page_fully") /\ Done("wait_for_images_and_fonts"))

\* C7: a DOM evaluation that fails during discovery does not abort the run:
\* the run goes on through download, HTML snapshot, screenshots and manifest.
C7_EvaluationFailureDoesNotAbort ==
    (Returned /\ raised \in EvalSteps) =>
        /\ Done("download_assets")
        /\ {IndexHtml, FullPagePng, ViewportPng} \subseteq files
        /\ manifest.written

\* The steps the specification calls best-effort.
BestEffortSteps ==
    {"dismiss_overlays", "scroll_page_fully", "wait_for_images_and_fonts",
     "save_html", "screenshot_fullpage", "screenshot_viewport"}

\* C8: after a successful navigation, a failure of overlay dismissal, of the
\* scroll, of the media-ready wait, of the HTML snapshot or of a screenshot
\* never aborts the run; the run returns with the manifest written.
C8_OnlyNavigationAborts ==
    (Returned /\ Done("wait_load") /\ raised \in BestEffortSteps) =>
        (Done("save_metadata") /\ manifest.written)

\* C9: once extract_assets_from_page has completed, no category of the
\* registry holds a URL twice; a category is no longer than the list
\* collected for it (self.assets[category] before line 128, font URLs
\* resolved) and as long as it when that list has no repeats.
C9_RegistryDeduplicated ==
    Done("extract_assets_from_page") =>
        \A c \in CategorySet :
            /\ NoRepeats(assets[c])
            /\ SameElements(assets[c], raw[c])
            /\ Len(assets[c]) <= Len(raw[c])
            /\ NoRepeats(raw[c]) => Len(assets[c]) = Len(raw[c])

\* C9 witness: a category that collected the same URL twice and holds it
\* once, while the same URL is held by no other category or by some.
C9_Witness ==
    /\ Done("extract_assets_from_page")
    /\ \E c \in CategorySet : Len(raw[c]) = 2 /\ Len(assets[c]) = 1

\* C10: when the run has returned, a file exists at the path predicted for a
\* registry entry exactly when the download of that entry succeeded, and
\* no two entries share a path.
C10_FileIffDownloadSucceeded ==
    Returned =>
        /\ \A e \in Entries :
              FilePath(e[1], e[2], assets[e[1]][e[2] + 1]) \in files
                 <=> Succeeded(e[1], e[2])
        /\ \A e, f \in Entries :
              FilePath(e[1], e[2], assets[e[1]][e[2] + 1])
                 = FilePath(f[1], f[2], assets[f[1]][f[2] + 1]) => e = f

\* The number of scroll steps the loop has made.
ScrollSteps == Cardinality(scrolledTo)

ScrollEnded == spc \in {"done", "raised"}

\* C11: on a page whose height stops growing, scroll_page_fully ends; the
\* loop body runs only while the position is below the last measured
\* height, the loop is left as soon as the position is at or beyond it, and
\* the window is then scrolled back to 0.
C11_ScrollLoopTerminates ==
    /\ <>ScrollEnded
    /\ [](spc = "scroll_to" => current_position < total_height)
    /\ [](spc \in {"scroll_top", "done"} => current_position >= total_height)
    /\ [](\A y \in scrolledTo : y < total_height)
    /\ [](spc = "done" => scrollY = 0)

\* C11 witness: the loop ended after several steps on a page that grew.
C11_Witness ==
    /\ spc = "done"
    /\ ScrollSteps >= 2
    /\ total_height > initial_height
    /\ scrollY = 0

StageOrder ==
    <<"setup_directories", "async_playwright", "launch", "new_context", "new_page",
      "goto", "wait_domcontentloaded", "wait_load", "dismiss_overlays",
      "eval_css", "eval_js", "eval_images", "eval_svgs", "extract_assets_from_page",
      "download_assets", "save_html", "scroll_page_fully",
      "wait_for_images_and_fonts", "screenshot_fullpage", "screenshot_viewport",
      "save_metadata", "browser_close">>

IsPrefix(s, t) == Len(s) <= Len(t) /\ \A i \in DOMAIN s : s[i] = t[i]

\* The files written by the stages before the manifest.
AssetFiles == {attempts[k].path : k \in DOMAIN attempts}

\* Once metadata.json exists, no step writes a file or makes a download.
ManifestIsLastWrite ==
    (MetadataJson \in files) => (files' = files /\ attempts' = attempts)

\* C13: the stages run one after another in program order (scaffold,
\* navigation, discovery, downloads, HTML snapshot, screenshots, manifest):
\* the completed steps are always a prefix of that order, downloads happen
\* only between discovery and the HTML snapshot, and once metadata.json
\* exists every download has resolved and no file is written any more.
C13_StagesInOrder ==
    /\ [](/\ IsPrefix(events, StageOrder)
          /\ (attempts # <<>> \/ inflight # {}) => Done("extract_assets_from_page")
          /\ Done("save_html") => (Done("download_assets") /\ inflight = {})
          /\ MetadataJson \in files =>
                /\ Done("screenshot_viewport")
                /\ inflight = {}
                /\ AllRequested)
    /\ [][ManifestIsLastWrite]_vars

\* C13 witness: a finished run with a manifest, two downloads (the first
\* failed) and every other output file.
C13_Witness ==
    /\ Returned /\ raised = "none"
    /\ manifest.written
    /\ Len(attempts) = 2 /\ attempts[1].ret # "True" /\ attempts[2].ret = "True"
    /\ {IndexHtml, FullPagePng, ViewportPng} \subseteq files

\* Step a completed, and step b completed after it.
Precedes(a, b) ==
    \E j \in DOMAIN events :
        events[j] = b /\ \E i \in 1..(j - 1) : events[i] = a

\* Step b is the step completed directly after step a.
DirectlyAfter(a, b) ==
    \E i \in DOMAIN events :
        events[i] = a /\ i < Len(events) /\ events[i + 1] = b

\* C14: the full-page screenshot is taken first and the viewport screenshot
\* directly after it, and neither before scroll_page_fully and
\* wait_for_images_and_fonts have both completed, in that order.
C14_ScreenshotsAfterStabilization ==
    /\ (pc \in {"shot_full", "shot_viewport"} \/ FullPagePng \in files
          \/ ViewportPng \in files \/ Done("screenshot_fullpage")) =>
          Precedes("scroll_page_fully", "wait_for_images_and_fonts")
    /\ ViewportPng \in files =>
          /\ FullPagePng \in files
          /\ DirectlyAfter("screenshot_fullpage", "screenshot_viewport")
    /\ Done("screenshot_fullpage") =>
          Precedes("wait_for_images_and_fonts", "screenshot_fullpage")

\* C14 witness: both screenshots exist.
C14_Witness ==
    /\ FullPagePng \in files /\ ViewportPng \in files
    /\ Done("screenshot_viewport")

\* A step taken inside the cookie loop either fails and moves to the next
\* selector of the list, or leaves the loop for discovery: after a click, or
\* after the last selector failed.
CookieLoopStep ==
    pc = "cookies" =>
        \/ (pc' = "cookies" /\ sel' = sel + 1 /\ ~clicked')
        \/ (pc' = "eval_css" /\ raised' = "none" /\ (clicked' \/ sel = NumSelectors))

\* C15: the cookie loop tries the selectors in list order, one after the
\* other; after a successful click no further selector is tried; it never
\* raises; and when all six fail the run goes on to discovery like after a
\* click.
C15_OverlayDismissalBestEffort ==
    /\ [](/\ raised # "dismiss_overlays"
          /\ clicked => pc # "cookies"
          /\ pc = "cookies" => sel \in 1..NumSelectors
          /\ pc \in EvalSteps => Done("dismiss_overlays"))
    /\ [][CookieLoopStep]_vars

\* C15 witness: discovery has begun although every selector failed.
C15_Witness == pc = "eval_css" /\ ~clicked /\ Done("dismiss_overlays")

\* A step outside extract_assets_from_page leaves self.assets as it is.
RegistryFrame == (pc \notin EvalSteps) => (assets' = assets)

\* C16: only extract_assets_from_page writes the registry: no step outside
\* it changes self.assets, and the registry the manifest holds is the one
\* discovery produced.
C16_RegistryWrittenOnlyByDiscovery ==
    /\ [][RegistryFrame]_vars
    /\ [](manifest.written =>
            (manifest.asset_urls = assets /\ Done("extract_assets_from_page")))
    /\ [](Done("extract_assets_from_page") =>
            \A c \in CategorySet : Range(assets[c]) = Range(raw[c]))

\* C16 witness: a manifest written after a failed and a successful download
\* of a registry of two entries.
C16_Witness ==
    /\ manifest.written
    /\ Len(attempts) = 2
    /\ attempts[1].ret = "True" /\ attempts[2].ret # "True"
    /\ \E c \in CategorySet : Len(assets[c]) >= 1

\* C17: no entry of the registry is requested twice (no two calls, returned
\* or running, are for the same entry); each call was for an entry of the
\* registry and for the URL of that entry; and when download_assets has
\* finished every entry (category, URL) has been requested, so exactly once,
\* whether the request succeeded or failed.
C17_NoRetries ==
    /\ \A j, k \in DOMAIN attempts :
          (attempts[j].cat = attempts[k].cat /\ attempts[j].idx = attempts[k].idx)
             => j = k
    /\ \A e \in inflight :
          /\ ~Requested(e[1], e[2])
          /\ e[2] + 1 \in DOMAIN assets[e[1]]
    /\ \A k \in DOMAIN attempts :
          /\ attempts[k].idx + 1 \in DOMAIN assets[attempts[k].cat]
          /\ attempts[k].url = assets[attempts[k].cat][attempts[k].idx + 1]
    /\ Done("download_assets") =>
          /\ inflight = {}
          /\ AllRequested

\* C17 witness: one URL held by two categories, requested once for each;
\* the first request failed.
C17_Witness ==
    /\ Done("download_assets")
    /\ Len(attempts) = 2
    /\ attempts[1].url = attempts[2].url
    /\ attempts[1].cat # attempts[2].cat
    /\ attempts[1].ret # "True"

\* The place of a category in the order download_assets drains them.
OrderIndex(cat) == CHOOSE i \in DOMAIN DownloadOrder : DownloadOrder[i] = cat

\* C19: at most one download is in flight at any moment (a download starts
\* only after the previous one has returned), and the downloads are made in
\* the order css, js, images, svgs, fonts, by rising index in a category.
C19_OneDownloadInFlight ==
    /\ Cardinality(inflight) <= 1
    /\ inflight # {} <=> pc = "downloading"
    /\ \A e \in inflight : AttemptsOf(e[1], e[2]) = {}
    /\ \A j, k \in DOMAIN attempts :
          j < k =>
             \/ OrderIndex(attempts[j].cat) < OrderIndex(attempts[k].cat)
             \/ /\ attempts[j].cat = attempts[k].cat
                /\ attempts[j].idx < attempts[k].idx
    /\ \A k \in DOMAIN attempts, e \in inflight :
          \/ OrderIndex(attempts[k].cat) < OrderIndex(e[1])
          \/ attempts[k].cat = e[1] /\ attempts[k].idx < e[2]

\* C19 witness: the second download is in flight after the first returned.
C19_Witness ==
    /\ pc = "downloading"
    /\ Len(attempts) = 1
    /\ Cardinality(inflight) = 1

\* C18: a second run of extract_assets_from_page on the same WebCloner,
\* against the same DOM, leaves every category with the set of URLs it held
\* after the run before, and no longer: the accumulated list is
\* de-duplicated again.  The order of a category may differ.
C18_DiscoveryIdempotentAsSets ==
    (ExtractReturned /\ ExtractCalls >= 2) =>
        \A c \in CategorySet :
            /\ Range(assets[c]) = Range(firstAssets[c])
            /\ Len(assets[c]) = Len(firstAssets[c])
            /\ NoRepeats(assets[c])

\* C18 witness: the second run has returned; a category of two URLs had
\* grown to a longer accumulated list and holds two again, in another order
\* than after the first run.
C18_Witness ==
    /\ ExtractReturned /\ ExtractCalls = 2
    /\ \E c \in CategorySet :
          /\ Len(firstAssets[c]) = 2
          /\ Len(raw[c]) > 2
          /\ Len(assets[c]) = 2
          /\ assets[c] # firstAssets[c]

\* The steps of clone() outside its try block: setup_directories (line 282)
\* and the entry and exit of `async with async_playwright()` (line 284).
OutsideTry == {"setup_directories", "async_playwright", "exit_playwright"}

\* C20 as stated: no exception of the browser block leaves clone(), it ends
\* the run where it was raised, and only setup_directories can raise out of
\* clone().
C20_OnlySetupDirectoriesRaisesOut ==
    /\ raised \notin OutsideTry \cup {"none"} =>
          pc \in {"except", "exit_playwright", "returned"}
    /\ pc = "raised" => raised = "setup_directories"

\* Once an exception has been raised no later stage runs and nothing is
\* rolled back: the completed steps, the files, the downloads, the registry,
\* the manifest and the browser stay as the failing step left them.
AbortFrame ==
    raised # "none" =>
        /\ events' = events
        /\ files' = files
        /\ attempts' = attempts
        /\ assets' = assets
        /\ manifest' = manifest
        /\ browser' = browser

\* C20, amended: an exception raised by a statement of the try block never
\* leaves clone(): the handler reports it and the run ends there, with the
\* files already written left on disk and every remaining stage skipped.
\* The exceptions that leave clone() are those of the statements outside
\* the try block: setup_directories, and the entry and the exit of the
\* async_playwright() context.
C20_TryBlockExceptionsContained ==
    /\ [](raised \notin OutsideTry \cup {"none"} =>
            /\ pc \in {"except", "exit_playwright", "returned"}
            /\ pc # "except" => errorLog = <<raised>>)
    /\ [](pc = "raised" => raised \in OutsideTry)
    /\ [](Returned => raised \notin OutsideTry)
    /\ [][AbortFrame]_vars

\* C20 witness: clone() has returned after save_metadata raised; the
\* exception was reported, metadata.json and the earlier files are on disk,
\* the manifest was not written and browser.close() was skipped.
C20_Witness ==
    /\ Returned
    /\ raised = "save_metadata"
    /\ errorLog = <<"save_metadata">>
    /\ {IndexHtml, FullPagePng, ViewportPng, MetadataJson} \subseteq files
    /\ ~manifest.written
    /\ ~Done("browser_close")

====
